---- MODULE Spec2Model ----
(***************************************************************************)
(* World of Bits (src/src/main.ts, final version starting at line 188):    *)
(* a grid of cells around the player, tokens that are picked up, dropped   *)
(* and combined, a memento store of modified cells, two movement           *)
(* controllers and a snapshot kept in localStorage.                        *)
(*                                                                         *)
(* Scaling.  Latitudes and longitudes are integers counted from            *)
(* CLASSROOM_LATLNG in units of TILE_DEGREES / 6.  The window radius is 1  *)
(* instead of 25.  A token id `${i},${j}-${Date.now()}` is the triple      *)
(* <<i, j, stamp>>: ids are only ever compared for equality, so a stamp    *)
(* stands for a millisecond value, two reads of the clock in different     *)
(* event handlers give different stamps, and two reads inside one rebuild  *)
(* give the same stamp or different stamps (both outcomes are explored).   *)
(* A Leaflet rectangle is the handle <<i, j, n>>.  Stamps and handles are   *)
(* the least ones not carried by a token that is held or shown, since only *)
(* those are ever compared.  Whether navigator has "geolocation" is an     *)
(* input of each start().  A nested "moveend" fired by map.setView inside  *)
(* a handler repeats that handler's own rebuild and save and is left to    *)
(* the MoveEnd action.                                                     *)
(***************************************************************************)
EXTENDS Integers, Sequences, FiniteSets, TLC

\* ------------------------------------------------------------------ bounds
\* The player stays within MaxSouth units south and MaxEast units east of
\* the origin (one step of a direction button each).
MaxSouth == 7
MaxEast == 7
\* A run handles at most MaxEvents events that change the state.
MaxEvents == 6
\* The memento alone: arrays of at most MaxTokens tokens, MaxCalls calls.
MaxTokens == 2
MaxCalls == 6

\* ------------------------------------------------------- program constants
TILE_DEGREES == 6
VISIBLE_RADIUS == 1
\* luck() and the spawn probability are in hundredths.
CACHE_SPAWN_PROBABILITY == 10
\* The value at which combineTokens announces the win: 64 in the code, here
\* 8, the largest value that the three tokens of the small world combine to.
WIN_VALUE == 8

Null == [null |-> TRUE]

LatLng(lat, lng) == [lat |-> lat, lng |-> lng]

CLASSROOM_LATLNG == LatLng(0, 0)

\* Positions a geolocation sample can report: in the cell south of the
\* origin and in the cell north of it.
SamplePositions == {LatLng(-3, 3), LatLng(9, 3)}

\* The keys for which the hash is below the spawn probability.
LuckyKeys == {<<0, 0>>, <<0, 1>>, <<1, 1>>}

\* _luck.ts: a deterministic hash of the key into [0,1), here in hundredths.
luck(key) == IF key \in LuckyKeys THEN 5 ELSE 50

VARIABLES
    phase,                \* "boot" before initializeGame, then "running" or "crashed"
    heldToken,
    movementController,   \* [kind, inst, currentPosition, watchId]
    currentMovementType,
    persistentCells,      \* key -> [hasBeenModified, baseTokens]
    activeCells,          \* key -> [tokens, visualElements]
    visibleBounds,
    layers,               \* rectangles on the map: handle -> [token, color]
    storage,              \* localStorage["tokenGameState"]
    watches,              \* the ids of the navigator.geolocation watches
    buttonsShown,         \* the direction buttons exist and are displayed
    alerts,               \* the number of win alerts shown on this page
    lastOp,               \* history: the last event that changed the state
    events,               \* history: the number of such events so far
    heap,                 \* the memento alone: reference -> token or array
    store,                \* key -> [hasBeenModified, baseTokens], an array
    given,                \* the caller's array that it passes to saveCellState
    loaded,               \* the array the last loadCellState returned
    written,              \* history: key -> the tokens of the last save
    lastCall,             \* history: the last call
    calls                 \* history: the number of calls so far

vars == <<phase, heldToken, movementController, currentMovementType,
          persistentCells, activeCells, visibleBounds, layers, storage,
          watches, buttonsShown, alerts, lastOp, events,
          heap, store, given, loaded, written, lastCall, calls>>

mementoVars == <<heap, store, given, loaded, written, lastCall, calls>>

programVars == <<phase, heldToken, movementController, currentMovementType,
                 persistentCells, activeCells, visibleBounds, layers,
                 storage, watches, buttonsShown, alerts, lastOp, events>>

\* The program state as one record, so that handlers compose as functions.
Cur ==
    [heldToken |-> heldToken, movementController |-> movementController,
     currentMovementType |-> currentMovementType,
     persistentCells |-> persistentCells, activeCells |-> activeCells,
     visibleBounds |-> visibleBounds, layers |-> layers, storage |-> storage,
     watches |-> watches, buttonsShown |-> buttonsShown, alerts |-> alerts]

Apply(S) ==
    /\ heldToken' = S.heldToken
    /\ movementController' = S.movementController
    /\ currentMovementType' = S.currentMovementType
    /\ persistentCells' = S.persistentCells
    /\ activeCells' = S.activeCells
    /\ visibleBounds' = S.visibleBounds
    /\ layers' = S.layers
    /\ storage' = S.storage
    /\ watches' = S.watches
    /\ buttonsShown' = S.buttonsShown
    /\ alerts' = S.alerts
    /\ UNCHANGED mementoVars

\* ------------------------------------------------------------- small tools
SeqToSet(s) == {s[k] : k \in 1..Len(s)}

RECURSIVE FilterSeq(_, _)
\* Array.prototype.filter with the predicate given as the set of kept values.
FilterSeq(s, keep) ==
    IF s = <<>> THEN <<>>
    ELSE IF Head(s) \in keep THEN <<Head(s)>> \o FilterSeq(Tail(s), keep)
         ELSE FilterSeq(Tail(s), keep)

\* The n-th smallest natural number that is not in used.
NthUnused(used, n) ==
    CHOOSE x \in 0..(Cardinality(used) + n) :
        /\ x \notin used
        /\ Cardinality({y \in 0..x : y \notin used}) = n

\* Function f with key k set to v, k added to the domain when new (Map.set).
MapSet(f, k, v) == [x \in DOMAIN f \cup {k} |-> IF x = k THEN v ELSE f[x]]

EmptyMap == [x \in {} |-> Null]

\* --------------------------------------------------------------- geometry
convertLatLong(lat, lng) ==
    [i |-> (lat - CLASSROOM_LATLNG.lat) \div TILE_DEGREES,
     j |-> (lng - CLASSROOM_LATLNG.lng) \div TILE_DEGREES]

\* The south-west corner of createBoundary(cell).
createBoundary(cell) ==
    LatLng(CLASSROOM_LATLNG.lat + cell.i * TILE_DEGREES,
           CLASSROOM_LATLNG.lng + cell.j * TILE_DEGREES)

getCellKey(cell) == <<cell.i, cell.j>>

\* IEEE-754 addition of a step of +-TILE_DEGREES to a coordinate.  For the
\* origin and tile size of the program the rounded sum lies one unit in the
\* last place beyond the exact sum, on both axes and in both directions, so
\* that (sum - origin) / TILE_DEGREES is just above k going up and just below
\* -k going down.  The excess is one model unit here.
FloatAdd(x, d) == x + d + (IF d > 0 THEN 1 ELSE IF d < 0 THEN -1 ELSE 0)

directions ==
    {[name |-> "North", lat |-> TILE_DEGREES, lng |-> 0],
     [name |-> "South", lat |-> 0 - TILE_DEGREES, lng |-> 0],
     [name |-> "East", lat |-> 0, lng |-> TILE_DEGREES],
     [name |-> "West", lat |-> 0, lng |-> 0 - TILE_DEGREES]}

InRange(p) ==
    /\ p.lat \in (CLASSROOM_LATLNG.lat - MaxSouth)..CLASSROOM_LATLNG.lat
    /\ p.lng \in CLASSROOM_LATLNG.lng..(CLASSROOM_LATLNG.lng + MaxEast)

\* ----------------------------------------------------------------- tokens
\* createToken: draw is Math.random() < 0.5, stamp is Date.now().
createToken(i, j, draw, stamp) ==
    [id |-> <<i, j, stamp>>, value |-> IF draw THEN 2 ELSE 4, i |-> i, j |-> j]

\* token.rect = rect
WithRect(token, rect) ==
    [id |-> token.id, value |-> token.value, i |-> token.i, j |-> token.j,
     rect |-> rect]

HasRect(token) == "rect" \in DOMAIN token

\* The { id, value, i, j } literal of saveGameState.
SerializedToken(token) ==
    [id |-> token.id, value |-> token.value, i |-> token.i, j |-> token.j]

\* ------------------------------------------------------------ the memento
\* saveCellState: the rest pattern { ...serializedToken } copies every own
\* property of the token, rect included.
saveCellState(cells, cellKey, tokens) ==
    MapSet(cells, cellKey,
           [hasBeenModified |-> TRUE,
            baseTokens |-> [k \in 1..Len(tokens) |-> tokens[k]]])

loadCellState(cells, cellKey) ==
    IF cellKey \notin DOMAIN cells THEN <<>>
    ELSE [k \in 1..Len(cells[cellKey].baseTokens) |->
              cells[cellKey].baseTokens[k]]

cellModified(cells, cellKey) ==
    cellKey \in DOMAIN cells /\ cells[cellKey].hasBeenModified

\* ------------------------------------------ the memento on a heap of objects
\* Tokens and arrays are objects; a variable or a field holds a reference.
Array(items) == [kind |-> "array", items |-> items]

\* The tokens of array a, by value and in order.
TokensOf(h, a) == [k \in 1..Len(h[a].items) |-> h[h[a].items[k]]]

\* What is reachable from the arrays in roots; the rest is garbage.
Collect(h, roots) ==
    LET live == roots \cup UNION {SeqToSet(h[a].items) : a \in roots}
    IN [r \in live |-> h[r]]

\* array.map((token) => token): a new array of the same objects.
MapSharing(h, a) ==
    LET fresh == NthUnused(DOMAIN h, 1)
    IN [heap |-> [r \in DOMAIN h \cup {fresh} |->
                     IF r = fresh THEN Array(h[a].items) ELSE h[r]],
        array |-> fresh]

\* array.map((token) => ({ ...token })): a new array of new objects.
MapSpread(h, a) ==
    LET n == Len(h[a].items)
        fresh == [k \in 1..(n + 1) |-> NthUnused(DOMAIN h, k)]
    IN [heap |-> [r \in DOMAIN h \cup SeqToSet(fresh) |->
                     IF r \in DOMAIN h THEN h[r]
                     ELSE IF r = fresh[n + 1] THEN Array(SubSeq(fresh, 1, n))
                     ELSE h[h[a].items[CHOOSE k \in 1..n : fresh[k] = r]]],
        array |-> fresh[n + 1]]

\* saveCellState with M = [heap, store] and tokens a reference to an array.
saveCellStateOnHeap(M, cellKey, tokens) ==
    LET copy == MapSpread(M.heap, tokens)
    IN [heap |-> copy.heap,
        store |-> MapSet(M.store, cellKey,
                         [hasBeenModified |-> TRUE, baseTokens |-> copy.array])]

\* loadCellState: the heap after the call and the array returned.
loadCellStateOnHeap(M, cellKey) ==
    IF cellKey \notin DOMAIN M.store
    THEN LET fresh == NthUnused(DOMAIN M.heap, 1)
         IN [heap |-> [r \in DOMAIN M.heap \cup {fresh} |->
                          IF r = fresh THEN Array(<<>>) ELSE M.heap[r]],
             array |-> fresh]
    ELSE MapSpread(M.heap, M.store[cellKey].baseTokens)

cellModifiedOnHeap(M, cellKey) ==
    cellKey \in DOMAIN M.store /\ M.store[cellKey].hasBeenModified

\* The keys and the tokens a caller uses.
MementoKeys == {<<0, 0>>, <<0, 1>>}

NewTokens ==
    {[id |-> <<0, 0, 0>>, value |-> 2, i |-> 0, j |-> 0],
     [id |-> <<0, 1, 0>>, value |-> 4, i |-> 0, j |-> 1]}

StoreRoots(st) == {st[key].baseTokens : key \in DOMAIN st}

\* An empty store and a caller with two empty arrays.
MementoInit ==
    /\ heap = [r \in {0, 1} |-> Array(<<>>)]
    /\ store = EmptyMap
    /\ given = 0
    /\ loaded = 1
    /\ written = EmptyMap
    /\ lastCall = "none"
    /\ calls = 0

Called(name) ==
    /\ calls < MaxCalls
    /\ calls' = calls + 1
    /\ lastCall' = name
    /\ UNCHANGED programVars

\* The caller pushes a new token on its array.
CallerPushes ==
    /\ Len(heap[given].items) < MaxTokens
    /\ \E token \in NewTokens :
         LET fresh == NthUnused(DOMAIN heap, 1)
         IN heap' = [r \in DOMAIN heap \cup {fresh} |->
                        IF r = fresh THEN token
                        ELSE IF r = given
                             THEN Array(Append(heap[given].items, fresh))
                             ELSE heap[r]]
    /\ Called("push")
    /\ UNCHANGED <<store, given, loaded, written>>

\* The caller assigns to a field of a token of one of its arrays.
CallerWrites ==
    /\ \E a \in {given, loaded} : \E k \in 1..Len(heap[a].items) :
         heap' = [heap EXCEPT ![heap[a].items[k]].value = 6 - @]
    /\ Called("write")
    /\ UNCHANGED <<store, given, loaded, written>>

\* The caller pops the last token off one of its arrays.
CallerPops ==
    /\ \E a \in {given, loaded} :
         /\ heap[a].items # <<>>
         /\ heap' = Collect([heap EXCEPT ![a].items =
                                SubSeq(@, 1, Len(@) - 1)],
                            {given, loaded} \cup StoreRoots(store))
    /\ Called("pop")
    /\ UNCHANGED <<store, given, loaded, written>>

SaveCellStateCall ==
    /\ \E cellKey \in MementoKeys :
         LET M == saveCellStateOnHeap([heap |-> heap, store |-> store],
                                      cellKey, given)
         IN /\ store' = M.store
            /\ heap' = Collect(M.heap, {given, loaded} \cup StoreRoots(M.store))
            /\ written' = MapSet(written, cellKey, TokensOf(heap, given))
    /\ Called("save")
    /\ UNCHANGED <<given, loaded>>

LoadCellStateCall ==
    /\ \E cellKey \in MementoKeys :
         LET L == loadCellStateOnHeap([heap |-> heap, store |-> store], cellKey)
         IN /\ loaded' = L.array
            /\ heap' = Collect(L.heap, {given, L.array} \cup StoreRoots(store))
    /\ Called("load")
    /\ UNCHANGED <<store, given, written>>

NextMemento ==
    \/ CallerPushes
    \/ CallerWrites
    \/ CallerPops
    \/ SaveCellStateCall
    \/ LoadCellStateCall

\* --------------------------------------------------------- names in use
TokensOfActive(cells) ==
    UNION {SeqToSet(cells[k].tokens) : k \in DOMAIN cells}

RectsOfActive(cells) ==
    UNION {SeqToSet(cells[k].visualElements) : k \in DOMAIN cells}

\* The token that outlives a rebuild with its id.
KeptTokens(S) == IF S.heldToken = Null THEN {} ELSE {S.heldToken}

\* Tokens on the map or in the active cells.
ShownTokens(S) ==
    TokensOfActive(S.activeCells) \cup {S.layers[h].token : h \in DOMAIN S.layers}

StampsAt(tokens, i, j) ==
    {t.id[3] : t \in {u \in tokens : u.id[1] = i /\ u.id[2] = j}}

RectsAt(rects, i, j) ==
    {r[3] : r \in {q \in rects : q # <<>> /\ q[1] = i /\ q[2] = j}}

\* ------------------------------------------------------------ spawnToken
\* A rectangle is added to the map with its popup bound to the token, and
\* the token and the rectangle are pushed on the active cell's lists (the
\* cell record is created when the key is not active).
spawnToken(S, token, isPlayerModified) ==
    LET inUse == RectsOfActive(S.activeCells) \cup DOMAIN S.layers
        rect == <<token.i, token.j,
                  NthUnused(RectsAt(inUse, token.i, token.j), 1)>>
        placed == WithRect(token, rect)
        cellKey == getCellKey([i |-> token.i, j |-> token.j])
        cellData == IF cellKey \in DOMAIN S.activeCells
                    THEN S.activeCells[cellKey]
                    ELSE [tokens |-> <<>>, visualElements |-> <<>>]
    IN [S EXCEPT
          !.layers = MapSet(S.layers, rect,
                            [token |-> placed,
                             color |-> IF isPlayerModified THEN "blue" ELSE "red"]),
          !.activeCells = MapSet(S.activeCells, cellKey,
                            [tokens |-> Append(cellData.tokens, placed),
                             visualElements |-> Append(cellData.visualElements, rect)])]

\* map.removeLayer(rect)
removeLayer(layerMap, rect) ==
    [h \in DOMAIN layerMap \ {rect} |-> layerMap[h]]

\* ------------------------------------------------------ updateVisibleCells
getCurrentPosition(controller) == controller.currentPosition

WindowOf(position) ==
    LET centerCell == convertLatLong(position.lat, position.lng)
    IN [iMin |-> centerCell.i - VISIBLE_RADIUS,
        iMax |-> centerCell.i + VISIBLE_RADIUS,
        jMin |-> centerCell.j - VISIBLE_RADIUS,
        jMax |-> centerCell.j + VISIBLE_RADIUS]

KeysOf(b) == {<<i, j>> : i \in b.iMin..b.iMax, j \in b.jMin..b.jMax}

\* The n-th key of the nested loops over i and j.
KeyAt(b, n) ==
    LET width == b.jMax - b.jMin + 1
    IN <<b.iMin + ((n - 1) \div width), b.jMin + ((n - 1) % width)>>

\* The cells of the next rebuild that draw a random value.
DrawKeys(S) ==
    LET position == getCurrentPosition(S.movementController)
    IN IF position = Null THEN {}
       ELSE {key \in KeysOf(WindowOf(position)) :
                /\ ~cellModified(S.persistentCells, key)
                /\ luck(key) < CACHE_SPAWN_PROBABILITY}

\* The places of the next rebuild where the millisecond clock can advance
\* between two tokens restored into the same cell.
TickPoints(S) ==
    LET position == getCurrentPosition(S.movementController)
    IN IF position = Null THEN {}
       ELSE UNION {{<<key, k>> :
                      k \in 1..(Len(S.persistentCells[key].baseTokens) - 1)} :
                   key \in {c \in KeysOf(WindowOf(position)) :
                               cellModified(S.persistentCells, c)}}

RECURSIVE RestoreTokens(_, _, _, _, _)
\* savedTokens.forEach(...) of one modified cell, from the k-th token on.
RestoreTokens(S, key, savedTokens, k, ticks) ==
    IF k > Len(savedTokens) THEN S
    ELSE LET older == StampsAt(KeptTokens(S), key[1], key[2])
             now == NthUnused(older,
                        1 + Cardinality({n \in 1..(k - 1) : <<key, n>> \in ticks}))
             freshToken == [id |-> <<key[1], key[2], now>>,
                            value |-> savedTokens[k].value,
                            i |-> key[1], j |-> key[2]]
         IN RestoreTokens(spawnToken(S, freshToken, TRUE), key, savedTokens,
                          k + 1, ticks)

\* The loop body with the generator consulted for modified cells as well.
RebuildCellMixing(S, key, draws, ticks) ==
    LET S1 == [S EXCEPT !.activeCells =
                  MapSet(S.activeCells, key,
                         [tokens |-> <<>>, visualElements |-> <<>>])]
        S2 == IF cellModified(S1.persistentCells, key)
              THEN RestoreTokens(S1, key, loadCellState(S1.persistentCells, key),
                                 1, ticks)
              ELSE S1
    IN IF luck(key) < CACHE_SPAWN_PROBABILITY
       THEN spawnToken(S2,
                createToken(key[1], key[2], TRUE,
                    NthUnused(StampsAt(KeptTokens(S2) \cup ShownTokens(S2),
                                       key[1], key[2]), 1)),
                FALSE)
       ELSE S2

\* The loop body with every rebuilt cell written to the override store.
RebuildCellSaving(S, key, draws, ticks) ==
    LET S1 == [S EXCEPT !.activeCells =
                  MapSet(S.activeCells, key,
                         [tokens |-> <<>>, visualElements |-> <<>>])]
        S2 == IF cellModified(S1.persistentCells, key)
              THEN RestoreTokens(S1, key, loadCellState(S1.persistentCells, key),
                                 1, ticks)
              ELSE IF luck(key) < CACHE_SPAWN_PROBABILITY
                   THEN spawnToken(S1,
                            createToken(key[1], key[2], draws[key],
                                NthUnused(StampsAt(KeptTokens(S1), key[1], key[2]), 1)),
                            FALSE)
                   ELSE S1
    IN [S2 EXCEPT !.persistentCells =
           saveCellState(S2.persistentCells, key, S2.activeCells[key].tokens)]

\* The body of the two nested loops for one cell.
RebuildCell(S, key, draws, ticks) ==
    LET S1 == [S EXCEPT !.activeCells =
                  MapSet(S.activeCells, key,
                         [tokens |-> <<>>, visualElements |-> <<>>])]
    IN IF cellModified(S1.persistentCells, key)
       THEN RestoreTokens(S1, key, loadCellState(S1.persistentCells, key), 1, ticks)
       ELSE IF luck(key) < CACHE_SPAWN_PROBABILITY
            THEN spawnToken(S1,
                     createToken(key[1], key[2], draws[key],
                         NthUnused(StampsAt(KeptTokens(S1), key[1], key[2]), 1)),
                     FALSE)
            ELSE S1

RECURSIVE RebuildFrom(_, _, _, _, _)
RebuildFrom(S, b, n, draws, ticks) ==
    IF n > Cardinality(KeysOf(b)) THEN S
    ELSE RebuildFrom(RebuildCell(S, KeyAt(b, n), draws, ticks), b, n + 1,
                     draws, ticks)

\* updateVisibleCells without activeCells.clear().
updateVisibleCellsKeepingCells(S, draws, ticks) ==
    LET position == getCurrentPosition(S.movementController)
    IN IF position = Null THEN S
       ELSE LET newBounds == WindowOf(position)
                shown == RectsOfActive(S.activeCells)
                cleared == [S EXCEPT
                              !.layers = [h \in DOMAIN S.layers \ shown |-> S.layers[h]]]
                rebuilt == RebuildFrom(cleared, newBounds, 1, draws, ticks)
            IN [rebuilt EXCEPT !.visibleBounds = newBounds]

updateVisibleCells(S, draws, ticks) ==
    LET position == getCurrentPosition(S.movementController)
    IN IF position = Null THEN S
       ELSE LET newBounds == WindowOf(position)
                shown == RectsOfActive(S.activeCells)
                cleared == [S EXCEPT
                              !.layers = [h \in DOMAIN S.layers \ shown |-> S.layers[h]],
                              !.activeCells = EmptyMap]
                rebuilt == RebuildFrom(cleared, newBounds, 1, draws, ticks)
            IN [rebuilt EXCEPT !.visibleBounds = newBounds]

\* ------------------------------------------------- movement controllers
ButtonMovementController(initialPosition) ==
    [kind |-> "buttons", currentPosition |-> initialPosition, watchId |-> {}]

\* The constructor overwrites the field initializer (null) with the argument.
GeolocationMovementController(initialPosition) ==
    [kind |-> "geolocation", currentPosition |-> initialPosition, watchId |-> {}]

\* movementController.start(); geo is "geolocation" in navigator.
start(S, geo) ==
    IF S.movementController.kind = "buttons" THEN S
    ELSE IF S.movementController.watchId # {} THEN S
    ELSE IF geo
         THEN LET id == NthUnused(S.watches, 1)
              IN [S EXCEPT !.watches = S.watches \cup {id},
                           !.movementController.watchId = {id}]
         ELSE S

\* stop() that forgets the watch id without clearWatch.
stopWithoutClearWatch(S) ==
    IF S.movementController.kind = "buttons" THEN S
    ELSE [S EXCEPT !.movementController.watchId = {}]

\* movementController.stop()
stop(S) ==
    IF S.movementController.kind = "buttons" THEN S
    ELSE IF S.movementController.watchId # {}
         THEN [S EXCEPT !.watches = S.watches \ S.movementController.watchId,
                        !.movementController.watchId = {}]
         ELSE S

setCurrentPosition(S, position) ==
    [S EXCEPT !.movementController.currentPosition = position]

\* ----------------------------------------------------------- GameStorage
Absent == [kind |-> "absent"]

\* Stored text that JSON.parse rejects.
Unparseable == [kind |-> "unparseable"]

\* Stored text that parses to an object without persistentCells, as "{}".
Malformed == [kind |-> "malformed"]

\* Array.from(persistentCells.entries()) and its inverse in loadGameState.
Entries(cells) == {<<k, cells[k]>> : k \in DOMAIN cells}

FromEntries(entries) ==
    [k \in {e[1] : e \in entries} |-> (CHOOSE e \in entries : e[1] = k)[2]]

\* JSON.stringify throws on a Leaflet layer (a rectangle refers to its popup,
\* whose _source is the rectangle): a state is written only when no
\* remembered token carries a rect.
Serializable(state) ==
    \A e \in state.persistentCells :
        \A t \in SeqToSet(e[2].baseTokens) : ~HasRect(t)

\* GameStorage.saveGameState: the catch block leaves the old snapshot.
StorageSave(S, state) ==
    IF Serializable(state) THEN [S EXCEPT !.storage = state] ELSE S

\* GameStorage.loadGameState
StorageLoad(S) ==
    IF S.storage.kind \in {"state", "malformed"} THEN S.storage ELSE Null

\* GameStorage.clearGameState
StorageClear(S) ==
    [S EXCEPT !.storage = Absent]

\* saveGameState that empties the active cells it has read.
saveGameStateClearing(S) ==
    LET position == getCurrentPosition(S.movementController)
        gameState ==
            [kind |-> "state",
             persistentCells |-> Entries(S.persistentCells),
             playerPosition |-> LatLng(position.lat, position.lng),
             heldToken |->
                 IF S.heldToken # Null THEN SerializedToken(S.heldToken)
                 ELSE Null,
             movementType |-> S.currentMovementType]
    IN StorageSave([S EXCEPT !.activeCells = EmptyMap], gameState)

saveGameState(S) ==
    LET position == getCurrentPosition(S.movementController)
        gameState ==
            [kind |-> "state",
             persistentCells |-> Entries(S.persistentCells),
             playerPosition |->
                 IF position # Null THEN LatLng(position.lat, position.lng)
                 ELSE LatLng(CLASSROOM_LATLNG.lat, CLASSROOM_LATLNG.lng),
             heldToken |->
                 IF S.heldToken # Null THEN SerializedToken(S.heldToken)
                 ELSE Null,
             movementType |-> S.currentMovementType]
    IN StorageSave(S, gameState)

\* loadGameState up to its call of updateVisibleCells.
RestoreSaved(S, savedState) ==
    LET S1 == [S EXCEPT !.persistentCells = FromEntries(savedState.persistentCells)]
        S2 == IF savedState.playerPosition # Null
                 /\ S1.movementController.kind = "buttons"
              THEN setCurrentPosition(S1, LatLng(savedState.playerPosition.lat,
                                                 savedState.playerPosition.lng))
              ELSE S1
    IN [S2 EXCEPT !.heldToken = savedState.heldToken,
                  !.currentMovementType = savedState.movementType]

\* The direction buttons are displayed only for the type "buttons".
updateMovementUI(S) ==
    [S EXCEPT !.buttonsShown = (S.currentMovementType = "buttons")]

\* savedState.persistentCells.forEach on a value without persistentCells
\* throws a TypeError that nothing catches.
loadGameStateThrows(savedState) ==
    savedState # Null /\ savedState.kind = "malformed"

\* The state in which loadGameState returns or throws.
loadGameState(S, savedState, draws, ticks) ==
    IF savedState = Null THEN S
    ELSE IF loadGameStateThrows(savedState)
    THEN [S EXCEPT !.persistentCells = EmptyMap]
    ELSE updateMovementUI(
             updateVisibleCells(RestoreSaved(S, savedState), draws, ticks))

\* ------------------------------------------------------ token life cycle
\* cellData.tokens.filter((t) => t.id !== token.id)
WithoutId(tokens, id) ==
    FilterSeq(tokens, {t \in SeqToSet(tokens) : t.id # id})

\* cellData.visualElements.filter((rect) => rect !== token.rect)
WithoutRect(rects, rect) ==
    FilterSeq(rects, SeqToSet(rects) \ {rect})

\* The removal made by handleTokenPickup and by combineTokens.
RemoveFromCell(S, token) ==
    LET cellKey == getCellKey([i |-> token.i, j |-> token.j])
    IN IF cellKey \notin DOMAIN S.activeCells THEN S
       ELSE LET cellData == S.activeCells[cellKey]
                tokens == WithoutId(cellData.tokens, token.id)
            IN IF HasRect(token)
               THEN [S EXCEPT
                       !.layers = removeLayer(S.layers, token.rect),
                       !.activeCells[cellKey] =
                           [tokens |-> tokens,
                            visualElements |->
                                WithoutRect(cellData.visualElements, token.rect)]]
               ELSE [S EXCEPT !.activeCells[cellKey].tokens = tokens]

\* handleTokenPickup without the call of saveCellState.
handleTokenPickupUnsaved(S, token) ==
    LET S1 == RemoveFromCell(S, token)
    IN saveGameState([S1 EXCEPT !.heldToken = token])

handleTokenPickup(S, token) ==
    LET cellKey == getCellKey([i |-> token.i, j |-> token.j])
        S1 == RemoveFromCell(S, token)
        S2 == IF cellKey \in DOMAIN S.activeCells
              THEN [S1 EXCEPT !.persistentCells =
                       saveCellState(S1.persistentCells, cellKey,
                                     S1.activeCells[cellKey].tokens)]
              ELSE S1
    IN saveGameState([S2 EXCEPT !.heldToken = token])

\* Date.now() in an event handler: later than every id made so far.
Now(S, i, j) ==
    NthUnused(StampsAt(KeptTokens(S) \cup ShownTokens(S), i, j), 1)

\* dropToken into the cell the held token came from.
dropTokenAtOrigin(S) ==
    IF S.heldToken = Null THEN S
    ELSE LET position == getCurrentPosition(S.movementController)
         IN IF position = Null THEN S
            ELSE LET playerCell == [i |-> S.heldToken.i, j |-> S.heldToken.j]
                     droppedToken ==
                         [id |-> <<playerCell.i, playerCell.j,
                                   Now(S, playerCell.i, playerCell.j)>>,
                          value |-> S.heldToken.value,
                          i |-> playerCell.i, j |-> playerCell.j]
                     cellKey == getCellKey(playerCell)
                     S1 == spawnToken(S, droppedToken, TRUE)
                     S2 == [S1 EXCEPT !.persistentCells =
                               saveCellState(S1.persistentCells, cellKey,
                                             S1.activeCells[cellKey].tokens)]
                 IN saveGameState([S2 EXCEPT !.heldToken = Null])

dropToken(S) ==
    IF S.heldToken = Null THEN S
    ELSE LET position == getCurrentPosition(S.movementController)
         IN IF position = Null THEN S
            ELSE LET playerCell == convertLatLong(position.lat, position.lng)
                     droppedToken ==
                         [id |-> <<playerCell.i, playerCell.j,
                                   Now(S, playerCell.i, playerCell.j)>>,
                          value |-> S.heldToken.value,
                          i |-> playerCell.i, j |-> playerCell.j]
                     cellKey == getCellKey(playerCell)
                     S1 == spawnToken(S, droppedToken, TRUE)
                     S2 == [S1 EXCEPT !.persistentCells =
                               saveCellState(S1.persistentCells, cellKey,
                                             S1.activeCells[cellKey].tokens)]
                 IN saveGameState([S2 EXCEPT !.heldToken = Null])

\* The guard of combineTokens without the comparison of the values.
CanCombineAnyValue(S, target) ==
    S.heldToken # Null

\* combineTokens goes on only when this holds (it returns otherwise).
CanCombine(S, target) ==
    S.heldToken # Null /\ S.heldToken.value = target.value

\* The alert shown only above the winning value.
WinAlertAbove(S, combinedValue) ==
    IF combinedValue > WIN_VALUE THEN [S EXCEPT !.alerts = @ + 1] ELSE S

\* if (combinedValue >= 64) alert(...): the dialog changes no program state.
WinAlert(S, combinedValue) ==
    IF combinedValue >= WIN_VALUE THEN [S EXCEPT !.alerts = @ + 1] ELSE S

\* combineTokens with 2 added to the value instead of doubling it.
combineTokensAddingTwo(S, target) ==
    IF ~CanCombine(S, target) THEN S
    ELSE LET combinedValue == target.value + 2
             cellKey == getCellKey([i |-> target.i, j |-> target.j])
             S1 == RemoveFromCell(S, target)
             combinedToken ==
                 [id |-> <<target.i, target.j, Now(S1, target.i, target.j)>>,
                  value |-> combinedValue, i |-> target.i, j |-> target.j]
             S2 == spawnToken(S1, combinedToken, TRUE)
             S3 == [S2 EXCEPT !.persistentCells =
                       saveCellState(S2.persistentCells, cellKey,
                                     S2.activeCells[cellKey].tokens)]
         IN WinAlert(saveGameState([S3 EXCEPT !.heldToken = Null]),
                     combinedValue)

\* combineTokens without the call of saveCellState.
combineTokensUnsaved(S, target) ==
    IF ~CanCombine(S, target) THEN S
    ELSE LET combinedValue == target.value * 2
             S1 == RemoveFromCell(S, target)
             combinedToken ==
                 [id |-> <<target.i, target.j, Now(S1, target.i, target.j)>>,
                  value |-> combinedValue, i |-> target.i, j |-> target.j]
             S2 == spawnToken(S1, combinedToken, TRUE)
         IN WinAlert(saveGameState([S2 EXCEPT !.heldToken = Null]),
                     combinedValue)

combineTokens(S, target) ==
    IF ~CanCombine(S, target) THEN S
    ELSE LET combinedValue == target.value * 2
             cellKey == getCellKey([i |-> target.i, j |-> target.j])
             S1 == RemoveFromCell(S, target)
             combinedToken ==
                 [id |-> <<target.i, target.j, Now(S1, target.i, target.j)>>,
                  value |-> combinedValue, i |-> target.i, j |-> target.j]
             S2 == spawnToken(S1, combinedToken, TRUE)
             S3 == [S2 EXCEPT !.persistentCells =
                       saveCellState(S2.persistentCells, cellKey,
                                     S2.activeCells[cellKey].tokens)]
         IN WinAlert(saveGameState([S3 EXCEPT !.heldToken = Null]),
                     combinedValue)

\* A popup that offers the pickup whatever the hand holds.
popupContentAlwaysPickup(S, token) == "pickup"

\* The function given to rect.bindPopup, called when the popup opens: the
\* button it shows.
popupContent(S, token) ==
    IF S.heldToken = Null THEN "pickup"
    ELSE IF S.heldToken.value = token.value THEN "combine"
    ELSE "none"

\* ------------------------------------------------------- session control
\* initializeMovementController: urlGeo is ?movement=geolocation.
initializeMovementController(S, urlGeo, geo) ==
    LET type == IF urlGeo THEN "geolocation" ELSE S.currentMovementType
        controller == IF type = "geolocation"
                      THEN GeolocationMovementController(CLASSROOM_LATLNG)
                      ELSE ButtonMovementController(CLASSROOM_LATLNG)
    IN start([S EXCEPT !.currentMovementType = type,
                       !.movementController = controller], geo)

\* switchMovementType without movementController.stop().
switchMovementTypeWithoutStop(S, geo) ==
    LET position == getCurrentPosition(S.movementController)
        initialPosition == IF position # Null THEN position ELSE CLASSROOM_LATLNG
        S2 == IF S.currentMovementType = "buttons"
              THEN [S EXCEPT
                      !.currentMovementType = "geolocation",
                      !.movementController =
                          GeolocationMovementController(initialPosition)]
              ELSE [S EXCEPT
                      !.currentMovementType = "buttons",
                      !.movementController =
                          ButtonMovementController(initialPosition)]
    IN saveGameState(updateMovementUI(start(S2, geo)))

\* switchMovementType with the new controller placed at CLASSROOM_LATLNG.
switchMovementTypeAtClassroom(S, geo) ==
    LET S1 == stop(S)
        S2 == IF S1.currentMovementType = "buttons"
              THEN [S1 EXCEPT
                      !.currentMovementType = "geolocation",
                      !.movementController =
                          GeolocationMovementController(CLASSROOM_LATLNG)]
              ELSE [S1 EXCEPT
                      !.currentMovementType = "buttons",
                      !.movementController =
                          ButtonMovementController(CLASSROOM_LATLNG)]
    IN saveGameState(updateMovementUI(start(S2, geo)))

switchMovementType(S, geo) ==
    LET S1 == stop(S)
        position == getCurrentPosition(S1.movementController)
        initialPosition == IF position # Null THEN position ELSE CLASSROOM_LATLNG
        S2 == IF S1.currentMovementType = "buttons"
              THEN [S1 EXCEPT
                      !.currentMovementType = "geolocation",
                      !.movementController =
                          GeolocationMovementController(initialPosition)]
              ELSE [S1 EXCEPT
                      !.currentMovementType = "buttons",
                      !.movementController =
                          ButtonMovementController(initialPosition)]
    IN saveGameState(updateMovementUI(start(S2, geo)))

\* startNewGame after confirm() returned true, up to updateVisibleCells.
ResetState(S) ==
    LET S1 == [S EXCEPT !.persistentCells = EmptyMap, !.heldToken = Null]
        S2 == IF S1.movementController.kind = "buttons"
              THEN setCurrentPosition(S1, CLASSROOM_LATLNG)
              ELSE S1
    IN StorageClear(S2)

startNewGame(S, confirmed, draws, ticks) ==
    IF confirmed THEN updateVisibleCells(ResetState(S), draws, ticks)
    ELSE S

\* The module-level initial values (lines 376-394); the snapshot in
\* localStorage outlives the page.
BootState(st) ==
    [heldToken |-> Null, movementController |-> Null,
     currentMovementType |-> "buttons",
     persistentCells |-> EmptyMap, activeCells |-> EmptyMap,
     visibleBounds |-> [iMin |-> 0, iMax |-> 0, jMin |-> 0, jMax |-> 0],
     layers |-> EmptyMap, storage |-> st, watches |-> {},
     buttonsShown |-> FALSE, alerts |-> 0]

\* initializeGame up to the rebuild that both of its branches make.
\* createMovementButtons ends with updateMovementUI.
createMovementButtons(S) == updateMovementUI(S)

BeforeFirstRebuild(S, urlGeo, geo) ==
    LET S1 == initializeMovementController(createMovementButtons(S), urlGeo, geo)
        savedState == StorageLoad(S1)
    IN IF savedState = Null \/ loadGameStateThrows(savedState) THEN S1
       ELSE RestoreSaved(S1, savedState)

initializeGame(S, urlGeo, geo, draws, ticks) ==
    LET S1 == initializeMovementController(createMovementButtons(S), urlGeo, geo)
        savedState == StorageLoad(S1)
    IN IF savedState = Null THEN updateVisibleCells(S1, draws, ticks)
       ELSE loadGameState(S1, savedState, draws, ticks)

\* The click handler of a direction button.
step(S, dir, draws, ticks) ==
    LET currentPosition == getCurrentPosition(S.movementController)
    IN IF currentPosition # Null /\ S.movementController.kind = "buttons"
       THEN LET newPosition == LatLng(FloatAdd(currentPosition.lat, dir.lat),
                                      FloatAdd(currentPosition.lng, dir.lng))
            IN saveGameState(
                   updateVisibleCells(setCurrentPosition(S, newPosition),
                                      draws, ticks))
       ELSE S

StepTarget(S, dir) ==
    LET currentPosition == getCurrentPosition(S.movementController)
    IN IF currentPosition # Null /\ S.movementController.kind = "buttons"
       THEN setCurrentPosition(S,
                LatLng(FloatAdd(currentPosition.lat, dir.lat),
                       FloatAdd(currentPosition.lng, dir.lng)))
       ELSE S

\* A success callback that leaves currentPosition as it is.
SampleTargetDropped(S, id, position) == S

\* The success callback of watchPosition for watch id.
SampleTarget(S, id, position) ==
    IF S.movementController.watchId = {id}
    THEN setCurrentPosition(S, position)
    ELSE S

\* The callback without its rebuild.
onPositionUnbuilt(S, id, position, draws, ticks) ==
    SampleTarget(S, id, position)

onPosition(S, id, position, draws, ticks) ==
    updateVisibleCells(SampleTarget(S, id, position), draws, ticks)

\* An error callback that falls back to CLASSROOM_LATLNG.
onErrorAtClassroom(S) == setCurrentPosition(S, CLASSROOM_LATLNG)

\* The error callback of watchPosition: console.error and nothing else.
onError(S) == S

\* map.on("moveend", ...)
moveend(S, draws, ticks) ==
    IF S.currentMovementType = "buttons"
    THEN saveGameState(updateVisibleCells(S, draws, ticks))
    ELSE S

\* ---------------------------------------------------------------- actions
Running == phase = "running"

\* initializeGame has run; when it threw, the statements after its call
\* (the beforeunload and moveend registrations) and its timer are missing,
\* the buttons and the geolocation watch are there.
Started == phase \in {"running", "crashed"}

\* The handler named name takes the program to S; lastOp names the last
\* handler that changed anything.
Handled(name, S) ==
    /\ events < MaxEvents
    /\ Apply(S)
    /\ lastOp' = IF S = Cur THEN lastOp ELSE name
    /\ events' = IF S = Cur THEN events ELSE events + 1
    /\ UNCHANGED phase

Init ==
    /\ phase = "boot"
    /\ heldToken = BootState(Absent).heldToken
    /\ movementController = BootState(Absent).movementController
    /\ currentMovementType = BootState(Absent).currentMovementType
    /\ persistentCells = BootState(Absent).persistentCells
    /\ activeCells = BootState(Absent).activeCells
    /\ visibleBounds = BootState(Absent).visibleBounds
    /\ layers = BootState(Absent).layers
    /\ storage = BootState(Absent).storage
    /\ watches = BootState(Absent).watches
    /\ buttonsShown = BootState(Absent).buttonsShown
    /\ alerts = BootState(Absent).alerts
    /\ lastOp = "boot"
    /\ events = 0
    /\ MementoInit

InitializeGame ==
    /\ phase = "boot"
    /\ \E urlGeo \in BOOLEAN, geo \in BOOLEAN :
         LET S == BeforeFirstRebuild(Cur, urlGeo, geo)
         IN \E draws \in [DrawKeys(S) -> BOOLEAN], ticks \in SUBSET TickPoints(S) :
              Apply(initializeGame(Cur, urlGeo, geo, draws, ticks))
    /\ lastOp' = IF StorageLoad(Cur) = Null THEN "init"
                 ELSE IF loadGameStateThrows(StorageLoad(Cur)) THEN "crash"
                 ELSE "load"
    /\ events < MaxEvents
    /\ events' = events + 1
    /\ phase' = IF loadGameStateThrows(StorageLoad(Cur)) THEN "crashed"
                 ELSE "running"

Step ==
    /\ Started
    /\ buttonsShown
    /\ \E dir \in directions :
         LET S == StepTarget(Cur, dir)
         IN /\ InRange(getCurrentPosition(S.movementController))
            /\ \E draws \in [DrawKeys(S) -> BOOLEAN],
                  ticks \in SUBSET TickPoints(S) :
                 Handled("step", step(Cur, dir, draws, ticks))

\* A click on the button of the popup that the rectangle opens.
HandleTokenPickup ==
    /\ Started
    /\ \E rect \in DOMAIN layers :
         /\ popupContent(Cur, layers[rect].token) = "pickup"
         /\ Handled("pickup", handleTokenPickup(Cur, layers[rect].token))

DropToken ==
    /\ Started
    /\ Handled("drop", dropToken(Cur))

CombineTokens ==
    /\ Started
    /\ \E rect \in DOMAIN layers :
         Handled("combine", combineTokens(Cur, layers[rect].token))

SwitchMovementType ==
    /\ Started
    /\ \E geo \in BOOLEAN : Handled("switch", switchMovementType(Cur, geo))

PositionSample ==
    /\ Started
    /\ \E id \in watches, position \in SamplePositions :
         LET S == SampleTarget(Cur, id, position)
         IN \E draws \in [DrawKeys(S) -> BOOLEAN],
               ticks \in SUBSET TickPoints(S) :
              Handled("sample", onPosition(Cur, id, position, draws, ticks))

PositionError ==
    /\ Started
    /\ watches # {}
    /\ Handled("error", onError(Cur))

MoveEnd ==
    /\ Running
    /\ \E draws \in [DrawKeys(Cur) -> BOOLEAN],
          ticks \in SUBSET TickPoints(Cur) :
         Handled("moveend", moveend(Cur, draws, ticks))

\* The autosave timer.
SaveGameState ==
    /\ Running
    /\ Handled("save", saveGameState(Cur))

StartNewGame ==
    /\ Started
    /\ \E confirmed \in BOOLEAN :
         LET S == IF confirmed THEN ResetState(Cur) ELSE Cur
         IN \E draws \in [DrawKeys(S) -> BOOLEAN],
               ticks \in SUBSET TickPoints(S) :
              Handled("reset", startNewGame(Cur, confirmed, draws, ticks))

\* beforeunload, after which the page and its memory are gone.
Unload ==
    /\ Started
    /\ Apply(BootState(IF Running THEN saveGameState(Cur).storage ELSE storage))
    /\ lastOp' = "unload"
    /\ events < MaxEvents
    /\ events' = events + 1
    /\ phase' = "boot"

Next ==
    \/ InitializeGame
    \/ Step
    \/ HandleTokenPickup
    \/ DropToken
    \/ CombineTokens
    \/ SwitchMovementType
    \/ PositionSample
    \/ PositionError
    \/ MoveEnd
    \/ SaveGameState
    \/ StartNewGame
    \/ Unload

Spec == Init /\ [][Next]_vars

\* The memento on its own, called with arrays the caller goes on using.
SpecMemento == Init /\ [][NextMemento]_vars

\* ------------------------------------------------------------- properties
\* What tokens are worth and where they lie, without ids and rectangles.
Content(tokens) ==
    [k \in 1..Len(tokens) |->
        [value |-> tokens[k].value, i |-> tokens[k].i, j |-> tokens[k].j]]

IdsOf(tokens) == {tokens[k].id : k \in 1..Len(tokens)}

KeyOfToken(token) == getCellKey([i |-> token.i, j |-> token.j])

PlayerKey ==
    LET position == getCurrentPosition(movementController)
    IN getCellKey(convertLatLong(position.lat, position.lng))

\* The sequence tokens with the one element token taken out.
Others(tokens, token) == FilterSeq(tokens, SeqToSet(tokens) \ {token})

\* The tokens a click on the map can reach that lie in their cell's record.
Resident(token) ==
    /\ KeyOfToken(token) \in DOMAIN activeCells
    /\ token \in SeqToSet(activeCells[KeyOfToken(token)].tokens)

\* C1: in every state from the first rebuild on, the recorded window is the
\* square of radius VISIBLE_RADIUS around the player's cell and the active
\* cell keys are exactly the keys of that square.
WindowComplete ==
    Running =>
        /\ visibleBounds = WindowOf(getCurrentPosition(movementController))
        /\ DOMAIN activeCells = KeysOf(visibleBounds)

\* C1 witness: a step has moved the window away from the origin and a token
\* is materialized in it.
WindowCompleteWitness ==
    /\ Running
    /\ lastOp = "step"
    /\ visibleBounds # WindowOf(CLASSROOM_LATLNG)
    /\ \E key \in DOMAIN activeCells : activeCells[key].tokens # <<>>

\* C2: whatever the random draws and the clock do, a rebuild gives a modified
\* cell exactly its override's tokens (values and coordinates, in order) and
\* a pristine cell exactly the generator's output: one token of value 2 or 4
\* when luck(key) is below the spawn probability, no token otherwise.
RebuildFaithful ==
    Running =>
        \A draws \in [DrawKeys(Cur) -> BOOLEAN], ticks \in SUBSET TickPoints(Cur) :
            LET R == updateVisibleCells(Cur, draws, ticks)
            IN \A key \in KeysOf(R.visibleBounds) :
                 LET tokens == R.activeCells[key].tokens
                 IN IF cellModified(persistentCells, key)
                    THEN Content(tokens) =
                             Content(persistentCells[key].baseTokens)
                    ELSE IF luck(key) < CACHE_SPAWN_PROBABILITY
                         THEN /\ Len(tokens) = 1
                              /\ tokens[1].value \in {2, 4}
                              /\ KeyOfToken(tokens[1]) = key
                         ELSE tokens = <<>>

\* C2 witness: a rebuild has covered a modified cell remembered with two
\* tokens next to a pristine cell holding its generated token.
RebuildFaithfulWitness ==
    /\ Running
    /\ lastOp \in {"step", "moveend"}
    /\ \E key \in DOMAIN activeCells :
         /\ cellModified(persistentCells, key)
         /\ Len(persistentCells[key].baseTokens) = 2
         /\ Len(activeCells[key].tokens) = 2
    /\ \E key \in DOMAIN activeCells :
         /\ ~cellModified(persistentCells, key)
         /\ Len(activeCells[key].tokens) = 1

PickupRemovesExactlyOne ==
    (Running /\ heldToken = Null) =>
        \A rect \in DOMAIN layers :
            LET t == layers[rect].token
                c == KeyOfToken(t)
                P == handleTokenPickup(Cur, t)
            IN Resident(t) =>
                 /\ P.heldToken = t
                 /\ P.activeCells[c].tokens = Others(activeCells[c].tokens, t)
                 /\ cellModified(P.persistentCells, c)
                 /\ Content(P.persistentCells[c].baseTokens) =
                        Content(Others(activeCells[c].tokens, t))

\* C5: no two tokens in the active records carry the same id, and the held
\* token's id is carried by no token in the active records.
UniqueIds ==
    Running =>
        /\ \A key \in DOMAIN activeCells :
             Cardinality(IdsOf(activeCells[key].tokens)) =
                 Len(activeCells[key].tokens)
        /\ \A k1, k2 \in DOMAIN activeCells :
             k1 # k2 => IdsOf(activeCells[k1].tokens)
                            \cap IdsOf(activeCells[k2].tokens) = {}
        /\ heldToken # Null =>
             \A key \in DOMAIN activeCells :
                 heldToken.id \notin IdsOf(activeCells[key].tokens)

\* C6: combining the held token of value v with a token t of value v that
\* lies in the record of its cell c clears the held token and leaves in c's
\* record and in c's override the other tokens of c followed by one new
\* token of value 2v at t's coordinates.
CombineExact ==
    (Running /\ heldToken # Null) =>
        \A rect \in DOMAIN layers :
            LET t == layers[rect].token
                c == KeyOfToken(t)
                P == combineTokens(Cur, t)
                others == Others(activeCells[c].tokens, t)
                after == P.activeCells[c].tokens
            IN (Resident(t) /\ heldToken.value = t.value) =>
                 /\ P.heldToken = Null
                 /\ Len(after) = Len(others) + 1
                 /\ SubSeq(after, 1, Len(others)) = others
                 /\ after[Len(after)].value = 2 * t.value
                 /\ KeyOfToken(after[Len(after)]) = c
                 /\ cellModified(P.persistentCells, c)
                 /\ Content(P.persistentCells[c].baseTokens) = Content(after)

\* C7: a combine with nothing held, or with a held value different from the
\* target's, leaves the whole program state as it was: held token, active
\* cells, overrides, controller and position, movement type, map and
\* snapshot.
CombineMismatchNoOp ==
    Running =>
        \A rect \in DOMAIN layers :
            (heldToken = Null \/ heldToken.value # layers[rect].token.value)
                => combineTokens(Cur, layers[rect].token) = Cur

\* C7 witness: a token is held and a token of another value is on the map.
CombineMismatchWitness ==
    /\ Running
    /\ heldToken # Null
    /\ \E rect \in DOMAIN layers :
         /\ Resident(layers[rect].token)
         /\ layers[rect].token.value # heldToken.value

\* C8: a drop with a token of value v held appends one token of value v to
\* the record of the player's cell, leaves every other token in place, saves
\* that record as the cell's override and clears the held token; a drop with
\* nothing held changes nothing.
DropPlaces ==
    Running =>
        IF heldToken = Null THEN dropToken(Cur) = Cur
        ELSE LET P == dropToken(Cur)
                 c == PlayerKey
             IN /\ c \in DOMAIN activeCells
                /\ P.heldToken = Null
                /\ DOMAIN P.activeCells = DOMAIN activeCells
                /\ \A key \in DOMAIN activeCells \ {c} :
                     P.activeCells[key] = activeCells[key]
                /\ Len(P.activeCells[c].tokens) = Len(activeCells[c].tokens) + 1
                /\ SubSeq(P.activeCells[c].tokens, 1, Len(activeCells[c].tokens))
                       = activeCells[c].tokens
                /\ Content(<<P.activeCells[c].tokens[Len(P.activeCells[c].tokens)]>>)
                       = <<[value |-> heldToken.value, i |-> c[1], j |-> c[2]]>>
                /\ cellModified(P.persistentCells, c)
                /\ Content(P.persistentCells[c].baseTokens) =
                       Content(P.activeCells[c].tokens)

\* C8 witness: a drop has just put a token into a cell that held another.
DropPlacesWitness ==
    /\ Running
    /\ lastOp = "drop"
    /\ heldToken = Null
    /\ Len(activeCells[PlayerKey].tokens) = 2

\* C9: between events, the override of every active cell that is marked
\* modified lists the tokens of the cell's active record, value by value and
\* coordinate by coordinate.
MementoConsistent ==
    Running =>
        \A key \in DOMAIN activeCells :
            cellModified(persistentCells, key) =>
                Content(persistentCells[key].baseTokens) =
                    Content(activeCells[key].tokens)

\* C9 witness: a combine has just saved a cell that now holds its product.
MementoConsistentWitness ==
    /\ Running
    /\ lastOp = "combine"
    /\ \E key \in DOMAIN activeCells :
         /\ cellModified(persistentCells, key)
         /\ activeCells[key].tokens # <<>>

\* C10: right after a page load restored a snapshot, the overrides, the
\* player position, the held token, the movement type and the kind of the
\* movement controller are the ones the snapshot recorded.
SnapshotRoundTrip ==
    (Running /\ lastOp = "load") =>
        /\ persistentCells = FromEntries(storage.persistentCells)
        /\ getCurrentPosition(movementController) = storage.playerPosition
        /\ heldToken = storage.heldToken
        /\ currentMovementType = storage.movementType
        /\ movementController.kind = storage.movementType

\* C11: a confirmed reset leaves no override, no held token, the player at
\* CLASSROOM_LATLNG, every cell of the rebuilt window filled by the generator
\* alone and the movement type and controller kind as they were; a declined
\* reset changes nothing.
ResetFresh ==
    Running =>
        /\ startNewGame(Cur, FALSE, <<>>, {}) = Cur
        /\ \A draws \in [DrawKeys(ResetState(Cur)) -> BOOLEAN] :
             LET R == startNewGame(Cur, TRUE, draws, {})
             IN /\ R.persistentCells = EmptyMap
                /\ R.heldToken = Null
                /\ getCurrentPosition(R.movementController) = CLASSROOM_LATLNG
                /\ R.currentMovementType = currentMovementType
                /\ R.movementController.kind = movementController.kind
                /\ \A key \in KeysOf(R.visibleBounds) :
                     LET tokens == R.activeCells[key].tokens
                     IN IF luck(key) < CACHE_SPAWN_PROBABILITY
                        THEN /\ Len(tokens) = 1
                             /\ tokens[1].value \in {2, 4}
                             /\ KeyOfToken(tokens[1]) = key
                        ELSE tokens = <<>>

\* A page load that finds in localStorage a value this program did not write.
InitExternal ==
    /\ phase = "boot"
    /\ heldToken = BootState(Absent).heldToken
    /\ movementController = BootState(Absent).movementController
    /\ currentMovementType = BootState(Absent).currentMovementType
    /\ persistentCells = BootState(Absent).persistentCells
    /\ activeCells = BootState(Absent).activeCells
    /\ visibleBounds = BootState(Absent).visibleBounds
    /\ layers = BootState(Absent).layers
    /\ storage \in {Absent, Unparseable, Malformed}
    /\ watches = BootState(Absent).watches
    /\ buttonsShown = BootState(Absent).buttonsShown
    /\ alerts = BootState(Absent).alerts
    /\ lastOp = "boot"
    /\ events = 0
    /\ MementoInit

SpecExternal == InitExternal /\ [][Next]_vars

\* C12: when the stored value is missing, does not parse or parses to a
\* value without the override list, loadGameState throws nothing and leaves
\* the state as it found it, and initializeGame goes on to the rebuild of a
\* fresh session.
CorruptLoadIsNoOp ==
    (phase = "boot" /\ storage.kind # "state") =>
        \A urlGeo \in BOOLEAN, geo \in BOOLEAN :
            LET S == initializeMovementController(createMovementButtons(Cur),
                                                  urlGeo, geo)
            IN /\ ~loadGameStateThrows(StorageLoad(S))
               /\ \A draws \in [DrawKeys(S) -> BOOLEAN] :
                    /\ loadGameState(S, StorageLoad(S), draws, {}) = S
                    /\ initializeGame(Cur, urlGeo, geo, draws, {}) =
                           updateVisibleCells(S, draws, {})

\* C13: saveGameState, whether the snapshot is written or the write throws,
\* changes nothing but the stored snapshot: overrides, active cells, held
\* token, controller with its position, movement type and map stay as they
\* were, and a save that throws leaves the whole state as it was.
SaveIsPureRead ==
    Running =>
        /\ saveGameState(Cur) = [Cur EXCEPT !.storage = saveGameState(Cur).storage]
        /\ saveGameState(Cur).storage \in
               {storage,
                [kind |-> "state",
                 persistentCells |-> Entries(persistentCells),
                 playerPosition |-> getCurrentPosition(movementController),
                 heldToken |-> IF heldToken # Null
                               THEN SerializedToken(heldToken) ELSE Null,
                 movementType |-> currentMovementType]}

\* C13 witness: the save at the end of a drop threw (the snapshot is older
\* than the overrides) and play went on with the dropped token in place.
SaveIsPureReadWitness ==
    /\ Running
    /\ lastOp = "drop"
    /\ storage.kind = "state"
    /\ FromEntries(storage.persistentCells) # persistentCells
    /\ saveGameState(Cur) = Cur

\* The one cell key at which the override stores before and after differ.
ChangedKeys(before, after) ==
    {key \in DOMAIN before \cup DOMAIN after :
        \/ key \notin DOMAIN before
        \/ key \notin DOMAIN after
        \/ before[key] # after[key]}

\* C14: within a page session the override store changes only in a pickup, a
\* drop, a combine or a confirmed reset; a pickup, a drop or a combine writes
\* exactly one entry, the one of the cell the token lies in, and deletes
\* none; steps, position samples, rebuilds, mode switches and saves leave the
\* store as it is; and a modified key disappears only in a reset or when the
\* page is unloaded.
OverridesStable ==
    [][/\ persistentCells' # persistentCells =>
            lastOp' \in {"pickup", "drop", "combine", "reset", "load", "unload"}
       /\ (persistentCells' # persistentCells
              /\ lastOp' \in {"pickup", "drop", "combine"}) =>
            /\ DOMAIN persistentCells \subseteq DOMAIN persistentCells'
            /\ \E key \in DOMAIN persistentCells' :
                 /\ ChangedKeys(persistentCells, persistentCells') = {key}
                 /\ \A token \in SeqToSet(persistentCells'[key].baseTokens) :
                        KeyOfToken(token) = key
                 /\ lastOp' = "pickup" => key = KeyOfToken(heldToken')
                 /\ lastOp' = "drop" => key = PlayerKey
       /\ ~(DOMAIN persistentCells \subseteq DOMAIN persistentCells') =>
            lastOp' \in {"reset", "unload"}
       /\ (lastOp' = "reset" /\ persistentCells' # persistentCells) =>
            persistentCells' = EmptyMap
       /\ (lastOp' = "load" /\ storage.kind = "state") =>
            persistentCells' = FromEntries(storage.persistentCells)]_vars

OverridesStableWitness ==
    /\ Running
    /\ lastOp \in {"step", "sample", "switch", "moveend", "save"}
    /\ Cardinality(DOMAIN persistentCells) >= 2
    /\ \E key \in DOMAIN persistentCells :
         persistentCells[key].baseTokens = <<>>

\* C15: with the store and the caller's array of any reachable state, and for
\* every key, saveCellState followed by loadCellState returns the tokens of
\* the array by value (id, value, i and j) and in order, whatever the key held
\* before; the key then reports cellModified and no other entry has changed;
\* the array returned and its tokens are new objects, as are the ones in the
\* store, so that the store still holds what was last saved after the caller
\* has written to, pushed on or popped off its arrays; and a key never saved
\* reports cellModified false and loads as the empty array.
MementoRoundTrip ==
    LET M == [heap |-> heap, store |-> store]
    IN /\ \A cellKey \in MementoKeys :
            LET M1 == saveCellStateOnHeap(M, cellKey, given)
                L == loadCellStateOnHeap(M1, cellKey)
                kept == M1.store[cellKey].baseTokens
            IN /\ TokensOf(L.heap, L.array) = TokensOf(heap, given)
               /\ cellModifiedOnHeap(M1, cellKey)
               /\ \A other \in MementoKeys \ {cellKey} :
                    /\ other \in DOMAIN M1.store <=> other \in DOMAIN store
                    /\ other \in DOMAIN store =>
                         /\ M1.store[other] = store[other]
                         /\ TokensOf(M1.heap, store[other].baseTokens)
                                = TokensOf(heap, store[other].baseTokens)
               /\ ({L.array} \cup SeqToSet(L.heap[L.array].items))
                    \cap ({kept, given} \cup SeqToSet(L.heap[kept].items)
                            \cup SeqToSet(L.heap[given].items)) = {}
               /\ ({kept} \cup SeqToSet(L.heap[kept].items))
                    \cap ({given} \cup SeqToSet(L.heap[given].items)) = {}
       /\ DOMAIN store = DOMAIN written
       /\ \A cellKey \in DOMAIN store :
            /\ cellModifiedOnHeap(M, cellKey)
            /\ TokensOf(heap, store[cellKey].baseTokens) = written[cellKey]
       /\ \A cellKey \in MementoKeys \ DOMAIN written :
            LET L == loadCellStateOnHeap(M, cellKey)
            IN /\ ~cellModifiedOnHeap(M, cellKey)
               /\ TokensOf(L.heap, L.array) = <<>>

MementoRoundTripWitness ==
    /\ lastCall = "write"
    /\ heap[loaded].items # <<>>
    /\ \E cellKey \in DOMAIN store :
         /\ Len(written[cellKey]) = 2
         /\ written[cellKey][1] # written[cellKey][2]
         /\ TokensOf(heap, given) # written[cellKey]
         /\ Len(heap[loaded].items) = 2
         /\ \A other \in DOMAIN store :
              TokensOf(heap, loaded) # written[other]

\* C16: in every state from the first rebuild on, a rebuild followed by a
\* second rebuild at the same position leaves every active cell with the same
\* token values at the same coordinates as the first one did, one rectangle
\* on the map per token, and no rectangle of the first rebuild on the map
\* that the second one does not own.
RebuildIdempotent ==
    Running =>
        \A draws1 \in [DrawKeys(Cur) -> BOOLEAN] :
            LET R1 == updateVisibleCells(Cur, draws1, {})
            IN \A draws2 \in [DrawKeys(R1) -> BOOLEAN] :
                 LET R2 == updateVisibleCells(R1, draws2, {})
                 IN /\ DOMAIN R2.activeCells = DOMAIN R1.activeCells
                    /\ \A key \in DOMAIN R1.activeCells :
                         /\ Content(R2.activeCells[key].tokens)
                                = Content(R1.activeCells[key].tokens)
                         /\ Len(R2.activeCells[key].visualElements)
                                = Len(R2.activeCells[key].tokens)
                    /\ DOMAIN R2.layers = RectsOfActive(R2.activeCells)
                    /\ Cardinality(DOMAIN R2.layers)
                           = Cardinality(TokensOfActive(R2.activeCells))

\* C17: in every state from the first rebuild on, the cell of the position
\* the movement controller reports lies in the recorded window and is one of
\* the active cells.
PlayerCellActive ==
    Running =>
        /\ PlayerKey \in KeysOf(visibleBounds)
        /\ PlayerKey \in DOMAIN activeCells

PlayerCellActiveWitness ==
    /\ Running
    /\ lastOp = "sample"
    /\ PlayerKey = <<1, 0>>
    /\ storage.kind = "state"
    /\ convertLatLong(storage.playerPosition.lat,
                      storage.playerPosition.lng).i = -2

\* C18: in every state from the first rebuild on, and whether or not the
\* browser has geolocation, the controller that switchMovementType installs
\* reports the position the old controller reported, it is of the other
\* kind when the tag and the controller agreed, and the held token, the
\* override store, the active cells, the window and the rectangles on the
\* map are the ones from before the switch.
SwitchPreserves ==
    Running =>
        \A geo \in BOOLEAN :
            LET R == switchMovementType(Cur, geo)
            IN /\ getCurrentPosition(R.movementController)
                    = getCurrentPosition(movementController)
               /\ R.currentMovementType # currentMovementType
               /\ R.movementController.kind = R.currentMovementType
               /\ R.heldToken = heldToken
               /\ R.persistentCells = persistentCells
               /\ R.activeCells = activeCells
               /\ R.visibleBounds = visibleBounds
               /\ R.layers = layers

SwitchPreservesWitness ==
    /\ Running
    /\ lastOp = "switch"
    /\ getCurrentPosition(movementController) # CLASSROOM_LATLNG
    /\ heldToken # Null
    /\ persistentCells # EmptyMap
    /\ movementController.kind = "buttons"

\* C19: in every state there is at most one geolocation watch, and a watch
\* that exists is the one the current controller, a geolocation controller,
\* holds; start on a controller that holds a watch registers no other one;
\* and the switch registers a watch only after the old one is cleared, so
\* that the watches after it are at most the one of the new controller.
OneWatch ==
    /\ Cardinality(watches) <= 1
    /\ ~Started => watches = {}
    /\ Started =>
         /\ watches = movementController.watchId
         /\ watches # {} => movementController.kind = "geolocation"
         /\ \A geo \in BOOLEAN :
              /\ movementController.watchId # {} => start(Cur, geo) = Cur
              /\ stop(Cur).watches = {}
              /\ LET R == switchMovementType(Cur, geo)
                 IN /\ Cardinality(R.watches) <= 1
                    /\ R.watches = R.movementController.watchId
                    /\ R.watches # {} =>
                         /\ geo
                         /\ R.movementController.kind = "geolocation"

OneWatchWitness ==
    /\ Running
    /\ lastOp = "switch"
    /\ movementController.kind = "buttons"
    /\ watches = {}
    /\ getCurrentPosition(movementController) \in SamplePositions

CellOf(S) ==
    LET position == getCurrentPosition(S.movementController)
    IN convertLatLong(position.lat, position.lng)

Distance(a, b) ==
    (IF a.i > b.i THEN a.i - b.i ELSE b.i - a.i)
        + (IF a.j > b.j THEN a.j - b.j ELSE b.j - a.j)

\* C20: in every state from the first rebuild on, while currentMovementType
\* is "buttons" a press of a direction button takes the player to a cell
\* next to the old one in one of the four directions and rebuilds the window
\* around it, and no position sample of a registered watch changes the
\* position; while currentMovementType is "geolocation" the direction
\* buttons are hidden or a press of one changes nothing.
ManualStepsOneCell ==
    Running =>
        /\ currentMovementType = "buttons" =>
             /\ \A dir \in directions :
                  LET T == StepTarget(Cur, dir)
                  IN /\ T # Cur => Distance(CellOf(T), CellOf(Cur)) = 1
                     /\ \A draws \in [DrawKeys(T) -> BOOLEAN] :
                          LET R == step(Cur, dir, draws, {})
                          IN /\ CellOf(R) = CellOf(T)
                             /\ R.visibleBounds
                                  = WindowOf(getCurrentPosition(R.movementController))
             /\ \A id \in watches, position \in SamplePositions :
                  SampleTarget(Cur, id, position) = Cur
        /\ currentMovementType = "geolocation" =>
             \/ ~buttonsShown
             \/ \A dir \in directions :
                  \A draws \in [DrawKeys(StepTarget(Cur, dir)) -> BOOLEAN] :
                      step(Cur, dir, draws, {}) = Cur

\* C21: a position sample changes the state (the position, or the window
\* through its rebuild) only when the current controller is a geolocation
\* controller that holds a registered watch, that is, one that was started
\* and not stopped since, the controller after the sample is that same
\* controller at the sampled position, and a controller that stop() has
\* left without a watch has no registered watch a sample could come from.
StoppedSourceSilent ==
    [][/\ (lastOp' = "sample" /\ events' # events) =>
            /\ movementController.kind = "geolocation"
            /\ movementController.watchId # {}
            /\ movementController.watchId = watches
            /\ movementController'.kind = "geolocation"
            /\ movementController'.watchId = movementController.watchId
            /\ getCurrentPosition(movementController') \in SamplePositions
       /\ (Started /\ movementController.watchId # {}) =>
            /\ stop(Cur).watches = watches \ movementController.watchId
            /\ stop(Cur).movementController.watchId = {}
            /\ \A id \in stop(Cur).watches, position \in SamplePositions :
                 SampleTarget(stop(Cur), id, position) = stop(Cur)]_vars

StoppedSourceSilentWitness ==
    /\ Running
    /\ lastOp = "pickup"
    /\ movementController.kind = "buttons"
    /\ watches = {}
    /\ getCurrentPosition(movementController) \in SamplePositions

\* C22: in every state in which a watch is registered, the error callback
\* leaves the position, the window, the active cells, the rectangles, the
\* override store and the held token as they are; and in every state after
\* start-up, start() without geolocation in the navigator changes nothing
\* and a switch without it ends with no watch registered.
FeedErrorIsNoOp ==
    Started =>
        /\ watches # {} =>
             LET R == onError(Cur)
             IN /\ R.movementController = movementController
                /\ R.visibleBounds = visibleBounds
                /\ R.activeCells = activeCells
                /\ R.layers = layers
                /\ R.persistentCells = persistentCells
                /\ R.heldToken = heldToken
                /\ R.watches = watches
        /\ start(Cur, FALSE) = Cur
        /\ LET fresh == [Cur EXCEPT !.movementController =
                            GeolocationMovementController(
                                getCurrentPosition(movementController))]
           IN start(fresh, FALSE) = fresh
        /\ switchMovementType(Cur, FALSE).watches = {}

FeedErrorIsNoOpWitness ==
    /\ Running
    /\ lastOp = "switch"
    /\ movementController.kind = "geolocation"
    /\ movementController.watchId = {}
    /\ watches = {}
    /\ getCurrentPosition(movementController) # CLASSROOM_LATLNG

RECURSIVE PowerOfTwo(_)
PowerOfTwo(n) == n = 1 \/ (n > 1 /\ n % 2 = 0 /\ PowerOfTwo(n \div 2))

ValidValue(value) == value >= 2 /\ PowerOfTwo(value)

\* Every token the program or its stored snapshot holds.
AllTokens ==
    (IF heldToken # Null THEN {heldToken} ELSE {})
        \cup TokensOfActive(activeCells)
        \cup {layers[rect].token : rect \in DOMAIN layers}
        \cup UNION {SeqToSet(persistentCells[key].baseTokens) :
                       key \in DOMAIN persistentCells}
        \cup (IF storage.kind = "state"
              THEN (IF storage.heldToken # Null THEN {storage.heldToken} ELSE {})
                     \cup UNION {SeqToSet(entry[2].baseTokens) :
                                    entry \in storage.persistentCells}
              ELSE {})

\* C24: in every state the value of the held token, of every token of an
\* active cell or on the map, of every token of an override and of every
\* token of the stored snapshot is a power of two and at least 2; a
\* generated token is worth 2 or 4; and a combine puts a token of twice the
\* target's value in the target's cell, empties the hand and leaves every
\* other token that is still there as it was.
ValuesArePowersOfTwo ==
    /\ \A token \in AllTokens : ValidValue(token.value)
    /\ \A draw \in BOOLEAN : createToken(0, 0, draw, 0).value \in {2, 4}
    /\ Started =>
         \A rect \in DOMAIN layers :
             LET target == layers[rect].token
                 R == combineTokens(Cur, target)
                 key == KeyOfToken(target)
             IN (CanCombine(Cur, target) /\ Resident(target)) =>
                  /\ \E token \in SeqToSet(R.activeCells[key].tokens) :
                       /\ token.value = 2 * target.value
                       /\ \A other \in TokensOfActive(R.activeCells) \ {token} :
                            other \in TokensOfActive(activeCells)
                  /\ R.heldToken = Null

ValuesArePowersOfTwoWitness ==
    /\ Running
    /\ lastOp = "combine"
    /\ \E token \in TokensOfActive(activeCells) : token.value = 8
    /\ \E key \in DOMAIN persistentCells :
         \E token \in SeqToSet(persistentCells[key].baseTokens) : token.value = 8

WithoutAlerts(S) == [S EXCEPT !.alerts = 0]

\* The handlers do not read the number of alerts shown.
GameGoesOnAfterWin ==
    (Started /\ alerts > 0) =>
        /\ \A rect \in DOMAIN layers :
             /\ WithoutAlerts(handleTokenPickup(Cur, layers[rect].token))
                  = WithoutAlerts(handleTokenPickup(WithoutAlerts(Cur),
                                                    layers[rect].token))
             /\ WithoutAlerts(combineTokens(Cur, layers[rect].token))
                  = WithoutAlerts(combineTokens(WithoutAlerts(Cur),
                                                layers[rect].token))
        /\ WithoutAlerts(dropToken(Cur))
             = WithoutAlerts(dropToken(WithoutAlerts(Cur)))
        /\ \A geo \in BOOLEAN :
             WithoutAlerts(switchMovementType(Cur, geo))
               = WithoutAlerts(switchMovementType(WithoutAlerts(Cur), geo))
        /\ \A dir \in directions :
             \A draws \in [DrawKeys(StepTarget(Cur, dir)) -> BOOLEAN] :
                 WithoutAlerts(step(Cur, dir, draws, {}))
                   = WithoutAlerts(step(WithoutAlerts(Cur), dir, draws, {}))
        /\ \A draws \in [DrawKeys(ResetState(Cur)) -> BOOLEAN] :
             WithoutAlerts(startNewGame(Cur, TRUE, draws, {}))
               = WithoutAlerts(startNewGame(WithoutAlerts(Cur), TRUE,
                                            draws, {}))

\* C25: an alert is shown in a transition exactly when the transition is a
\* combine whose new token is worth WIN_VALUE or more, and then one alert;
\* no other event shows one (the count only falls back to 0 with the page);
\* and in a state in which the win has been announced, a pickup, a drop, a
\* combine, a step, a switch and a reset do what they do in the same state
\* without the announcement.
WinOnlyOnCombine ==
    /\ [][/\ (Started' /\ alerts' # alerts) =>
               /\ lastOp' = "combine"
               /\ alerts' = alerts + 1
               /\ heldToken # Null
               /\ 2 * heldToken.value >= WIN_VALUE
               /\ \E token \in TokensOfActive(activeCells') :
                    token.value = 2 * heldToken.value
          /\ (lastOp' = "combine" /\ events' # events
                 /\ 2 * heldToken.value >= WIN_VALUE) =>
               alerts' = alerts + 1]_vars
    /\ [](GameGoesOnAfterWin)

WinOnlyOnCombineWitness ==
    /\ Running
    /\ alerts = 1
    /\ lastOp \in {"pickup", "step", "switch", "reset"}
    /\ events >= 4

\* C26: a pickup happens only in a state in which nothing is held and puts
\* the token of the clicked rectangle in the hand; and a held token leaves
\* the hand or is replaced only in a drop, in a combine with a token of the
\* same value, in a confirmed reset or when the page goes (the restore puts
\* back what the snapshot holds).
PickupOnlyWhenEmpty ==
    [][/\ (lastOp' = "pickup" /\ events' # events) =>
            /\ heldToken = Null
            /\ heldToken' # Null
            /\ heldToken' \in {layers[rect].token : rect \in DOMAIN layers}
       /\ (Started /\ heldToken # Null /\ heldToken' # heldToken) =>
            /\ lastOp' \in {"drop", "combine", "reset", "unload"}
            /\ heldToken' = Null
            /\ lastOp' = "combine" =>
                 \E rect \in DOMAIN layers :
                     layers[rect].token.value = heldToken.value
       /\ (Started /\ heldToken # Null) =>
            \A rect \in DOMAIN layers :
                popupContent(Cur, layers[rect].token) # "pickup"]_vars

PickupOnlyWhenEmptyWitness ==
    /\ Running
    /\ heldToken # Null
    /\ lastOp \in {"step", "moveend", "switch"}
    /\ \E rect \in DOMAIN layers : layers[rect].token.value # heldToken.value
    /\ \E rect \in DOMAIN layers : layers[rect].token.value = heldToken.value

\* C27: in every state after start-up currentMovementType is the kind of the
\* movement controller, and a switch installs a controller of the other
\* kind.
TagMatchesController ==
    Started =>
        /\ currentMovementType = movementController.kind
        /\ \A geo \in BOOLEAN :
             switchMovementType(Cur, geo).movementController.kind
                 # movementController.kind

\* C28: in every state the rectangles of an active cell are the rectangles
\* of its tokens, one for each token and in the same order, every token of
\* the cell has one, and they are the rectangles the map shows.
OneRectPerToken ==
    /\ \A key \in DOMAIN activeCells :
         LET cellData == activeCells[key]
         IN /\ Len(cellData.visualElements) = Len(cellData.tokens)
            /\ \A k \in 1..Len(cellData.tokens) :
                 /\ HasRect(cellData.tokens[k])
                 /\ cellData.visualElements[k] = cellData.tokens[k].rect
    /\ DOMAIN layers = RectsOfActive(activeCells)

\* C29: in every state every token of an override has the fields id, value,
\* i and j and no others, and saveGameState succeeds in writing the snapshot
\* of the current state.
OverridesArePlainData ==
    /\ \A key \in DOMAIN persistentCells :
         \A token \in SeqToSet(persistentCells[key].baseTokens) :
             DOMAIN token = {"id", "value", "i", "j"}
    /\ Running =>
         /\ saveGameState(Cur).storage.kind = "state"
         /\ FromEntries(saveGameState(Cur).storage.persistentCells)
              = persistentCells

====
